---- MODULE Spec2Model ----
(***************************************************************************)
(* The supervised worker channel of typst-bot: the chat commands that take *)
(* the Worker lock (crates/bot/src/bot.rs), Worker::run with its select    *)
(* loop, timeouts and retries, and Process::spawn / replace / communicate  *)
(* with the blocking tasks they start (crates/bot/src/worker.rs).          *)
(*                                                                         *)
(* A worker process is untrusted: after a request it may emit Progress     *)
(* frames, any terminal frame, an undecodable frame, close its output, or  *)
(* stay silent for ever.  The blocking task's read of a frame and the      *)
(* worker's emission of it are one step (the pipe is FIFO and one-way, so  *)
(* buffering in the pipe changes no order).                                *)
(*                                                                         *)
(* Time is discrete: Tick advances the clock by Quantum seconds.  The      *)
(* select loop reacts at once: time does not pass while one of its         *)
(* branches is ready.                                                      *)
(***************************************************************************)
EXTENDS Naturals, Sequences, FiniteSets

(* ------------------------------ bounds -------------------------------- *)
\* Number of chat commands (callers) that may be invoked; each issues one request.
NumCallers == 2
\* Number of Progress frames the workers emit for caller requests, in total,
\* when a single command is invoked (with several commands they emit none).
\* Six frames, one per Quantum, keep the fast timer alive until the long one
\* has run out.
MaxProgress == 6

\* Number of Requests written to one worker's stdin.
MaxReqs == 2
\* Longest code string of a Request, in bytes.
MaxCode == 1
\* Number of Progress frames a worker writes while it renders one Request.
MaxWProgress == 1
\* Number of pages of a compiled document.
MaxPages == 6
\* Longest text given to sanitize_code_block and to CodeBlock::pop_from, in
\* characters.
MaxText == 8
\* Longest source given to byte_index_to_char_index and
\* byte_span_to_char_span, in characters.
MaxSource == 3

(* ------------------------- program constants -------------------------- *)
\* (A budget of three attempts.)
RetryBudget_Three == 2 + 1
\* let mut tries_left = 2;
RetryBudget == 2
\* let fast_timeout = Duration::from_secs(5);
fast_timeout == 5
\* let long_timeout = Duration::from_secs(30);
long_timeout == 30
\* mpsc::channel(1) of Worker::run
InnerCap == 1
\* mpsc::channel(4) of the render command
OuterCap == 4

\* Seconds by which one Tick advances the clock.
Quantum == fast_timeout

Callers == 1..NumCallers
\* Every failed attempt spawns at most one process; one more exists at startup.
MaxProc == 1 + RetryBudget * NumCallers
Procs == 1..MaxProc

Kinds == {"Render", "Ast", "Version"}
\* Terminal frames of protocol::Response (Render carries Ok or Err).
Terminals == {"RenderOk", "RenderErr", "Ast", "Version"}
\* The terminal frames a worker is let to answer a request of a kind with: the
\* compliant ones and one of another variant.
Answers(kind) ==
    CASE kind = "Render" -> {"RenderOk", "RenderErr", "Version"}
      [] kind = "Ast" -> {"Ast", "Version"}
      [] kind = "Version" -> {"Version", "Ast"}

VARIABLES
    callerPc,    \* caller -> "idle" | "waiting" | "running" | "done" ("absent": never invoked)
    callerReq,   \* caller -> request kind
    lock,        \* holder of Data.pool's Mutex, 0 when free
    queue,       \* callers waiting in pool.lock().await, in arrival order
    pc,          \* position of the running command: "idle" | "select" | "forward" |
                 \* "hc" | "kill" | "ret"
    ret,         \* what render / ast / version returned to the command (NoRet: nothing yet)
    tries_left,  \* Worker::run's tries_left
    cause,       \* why replace() is running: "io" | "timeout" | "none"
    errAtt,      \* the attempt whose error the variable `error` holds (0: none)
    child,       \* Worker.process.child: a process, or 0 for None
    nproc,       \* processes spawned so far
    procs,       \* process -> its record
    fut,         \* the communicate call being awaited and its blocking task
    abandoned,   \* processes whose blocking task runs on after its future was dropped
    killPc,      \* the kill task of replace(): "none" | "kill" | "wait" | "done"
    killTarget,  \* the process the kill task owns (0: old.child was None)
    inner,       \* progress_inner channel buffer
    held,        \* the progress item outer.send(..) is waiting to deliver (0: none)
    outer,       \* the render command's progress channel buffer
    consumed,    \* what the render command's receive loop has taken
    fastLeft,    \* seconds until fast_timeout_fut fires
    longLeft,    \* seconds until long_timeout_fut fires
    progressLeft,\* Progress frames the workers may still emit (the bound)
    attempts,    \* history: communicate attempts of the running run
    replaces,    \* history: calls of Process::replace in the running run
    fails,       \* history: attempts of the running run that ended in error or timeout
    timeouts,    \* history: attempts of the running run that ended in a timeout
    emitted,     \* history: Progress frames read in the current attempt
    silent       \* history: in the current attempt the worker has let fast_timeout
                 \* seconds pass without a frame while it owed the terminal frame

\* The worker program (worker/src/main.rs) seen from inside, and its caller.
VARIABLES
    wIn,         \* bytes written to the worker's stdin and not yet read by it
    wClosed,     \* the write end of the worker's stdin has been closed
    wTrunc,      \* history: it was closed in the middle of a Request
    wSent,       \* history: the Requests encoded into stdin and not yet decoded
    wNum,        \* history: how many Requests have been encoded into stdin
    wpc,         \* "read" | "work" | "exited" (main returned) | "crashed" (panic)
    wReq,        \* the Request being processed, as decoded (NoReq: none)
    wOrig,       \* history: that Request as it was before it was encoded
    wProg,       \* Progress frames written for the Request being processed
    wOut         \* the frames written to stdout since the last Request was read

\* The render function of the worker (crates/worker/src/render.rs).
VARIABLES
    rDoc,        \* the compiled document: per page the size of its PNG, or "TooBig"
    rpc,         \* "compile" | "done"
    rOut         \* what render returned (NoRendered: nothing yet)

\* The string functions of the bot and of the worker's diagnostics.
VARIABLES
    tIn,         \* the argument string, a sequence of code points
    tpc,         \* "input" | "done"
    tOut         \* the function applied and what it returned (NoOut: nothing yet)

brokerVars == <<callerPc, callerReq, lock, queue, pc, ret, tries_left, cause, errAtt,
                child, nproc, procs, fut, abandoned, killPc, killTarget, inner, held,
                outer, consumed, fastLeft, longLeft, progressLeft, attempts, replaces,
                fails, timeouts, emitted, silent>>
workerVars == <<wIn, wClosed, wTrunc, wSent, wNum, wpc, wReq, wOrig, wProg, wOut>>
renderVars == <<rDoc, rpc, rOut>>
textVars == <<tIn, tpc, tOut>>
\* What the steps of the bot leave alone.
otherVars == <<workerVars, renderVars, textVars>>

vars == <<brokerVars, workerVars, renderVars, textVars>>

callerVars == <<callerPc, callerReq, lock, queue>>
\* The locals of Worker::run apart from the channel and the timers.
runVars == <<pc, ret, tries_left, cause, errAtt>>
procVars == <<child, nproc, procs>>
timerVars == <<fastLeft, longLeft>>
sinkVars == <<outer, consumed>>
killVars == <<killPc, killTarget>>
histVars == <<attempts, replaces, fails, timeouts>>

(* ------------------------------ helpers ------------------------------- *)
Monus(a, b) == IF a >= b THEN a - b ELSE 0

NoRet == [out |-> "none", frame |-> "none", errAtt |-> 0]
\* proc: the process whose Child the task owns; hc: the health check of spawn;
\* st: "write" | "read" | "send" | "done"; res: the task's result; item: the
\* Progress item in blocking_send; hung: the worker will emit nothing more.
NoFut == [proc |-> 0, hc |-> FALSE, st |-> "none", res |-> "none", item |-> 0,
          hung |-> FALSE, owner |-> 0]
\* st: the Child as the parent sees it: "unborn" | "live" | "killed" | "reaped" |
\*     "dropped" (the Child value was dropped, neither killed nor waited on);
\* pending: Request frames written to it and not yet answered by a terminal
\* frame; failed: how a communicate on it ended badly: "io" | "timeout" | "no";
\* healthy: it passed its health check.
NoProc == [st |-> "unborn", pending |-> 0, failed |-> "no", healthy |-> FALSE]

\* (A variant check that lets every terminal frame through as a success.)
Wrap_Coerced(kind, frame) ==
    IF kind = "Render" /\ frame = "RenderErr" THEN "compile" ELSE "ok"
\* Worker::render / ast / version: the variant check on run's Ok(response).
Wrap(kind, frame) ==
    CASE kind = "Render" /\ frame = "RenderOk" -> "ok"
      [] kind = "Render" /\ frame = "RenderErr" -> "compile"
      [] kind = "Ast" /\ frame = "Ast" -> "ok"
      [] kind = "Version" /\ frame = "Version" -> "ok"
      [] OTHER -> "protocol"

NoReq == [kind |-> "none", code |-> <<>>]
\* A worker process just started, its stdin open and empty.
WorkerInit ==
    /\ wIn = <<>>
    /\ wClosed = FALSE
    /\ wTrunc = FALSE
    /\ wSent = <<>>
    /\ wNum = 0
    /\ wpc = "read"
    /\ wReq = NoReq
    /\ wOrig = NoReq
    /\ wProg = 0
    /\ wOut = <<>>

NoRendered == [out |-> "none", images |-> <<>>, more_pages |-> 0]
\* Nothing compiled yet.
RenderInit ==
    /\ rDoc = <<>>
    /\ rpc = "compile"
    /\ rOut = NoRendered

NoOut == [fn |-> "none", val |-> <<>>]
\* No argument yet.
TextInit ==
    /\ tIn = <<>>
    /\ tpc = "input"
    /\ tOut = NoOut

\* Either one command is invoked and the workers emit up to MaxProgress
\* Progress frames, or up to NumCallers commands are and the workers emit none.
Init ==
    /\ WorkerInit
    /\ RenderInit
    /\ TextInit
    /\ \E n \in {1, NumCallers} :
        /\ callerPc = [c \in Callers |-> IF c <= n THEN "idle" ELSE "absent"]
        /\ progressLeft = IF n = 1 THEN MaxProgress ELSE 0
    /\ callerReq = [c \in Callers |-> "Version"]
    /\ lock = 0
    /\ queue = <<>>
    /\ pc = "idle"
    /\ ret = NoRet
    /\ tries_left = 0
    /\ cause = "none"
    /\ errAtt = 0
    \* Worker::spawn() at startup: process 1 has passed its health check.
    /\ child = 1
    /\ nproc = 1
    /\ procs = [i \in Procs |->
                  IF i = 1 THEN [NoProc EXCEPT !.st = "live", !.healthy = TRUE]
                  ELSE NoProc]
    /\ fut = NoFut
    /\ abandoned = {}
    /\ killPc = "none"
    /\ killTarget = 0
    /\ inner = <<>>
    /\ held = 0
    /\ outer = <<>>
    /\ consumed = <<>>
    /\ fastLeft = 0
    /\ longLeft = 0
    /\ attempts = 0
    /\ replaces = 0
    /\ fails = 0
    /\ timeouts = 0
    /\ emitted = 0
    /\ silent = FALSE

(* ------------------- the commands and the Worker lock ----------------- *)
\* (A lock that never makes a caller wait.)
LockFree_Always == TRUE
\* pool.lock().await succeeds only while nobody holds the guard.
LockFree == lock = 0

\* (A lock that serves the latest arrival first.)
Arrive_Front(c, kind) ==
    /\ UNCHANGED otherVars
    /\ callerPc[c] = "idle"
    /\ callerPc' = [callerPc EXCEPT ![c] = "waiting"]
    /\ callerReq' = [callerReq EXCEPT ![c] = kind]
    /\ queue' = <<c>> \o queue
    /\ UNCHANGED <<lock, runVars, procVars, fut, abandoned, killVars, inner, held,
                   sinkVars, timerVars, progressLeft, histVars, emitted, silent>>
\* A chat command is invoked and reaches pool.lock().await.
Arrive(c, kind) ==
    /\ UNCHANGED otherVars
    /\ callerPc[c] = "idle"
    /\ callerPc' = [callerPc EXCEPT ![c] = "waiting"]
    /\ callerReq' = [callerReq EXCEPT ![c] = kind]
    /\ queue' = Append(queue, c)
    /\ UNCHANGED <<lock, runVars, procVars, fut, abandoned, killVars, inner, held,
                   sinkVars, timerVars, progressLeft, histVars, emitted, silent>>

\* (A communicate that leaves the child in the handle while its task uses it.)
StartAttempt_KeepsChild(c, n) ==
    /\ fut' = [proc |-> child, hc |-> FALSE, st |-> "write", res |-> "none",
               item |-> 0, hung |-> FALSE, owner |-> c]
    /\ child' = child
    /\ inner' = <<>>
    /\ held' = 0
    /\ fastLeft' = fast_timeout
    /\ longLeft' = long_timeout
    /\ pc' = "select"
    /\ attempts' = n
    /\ emitted' = 0
    /\ silent' = FALSE
\* One attempt begins: communicate() takes the child and starts its blocking
\* task; the two sleeps are created; the select loop is entered.
StartAttempt(c, n) ==
    /\ fut' = [proc |-> child, hc |-> FALSE, st |-> "write", res |-> "none",
               item |-> 0, hung |-> FALSE, owner |-> c]
    /\ child' = 0
    /\ inner' = <<>>
    /\ held' = 0
    /\ fastLeft' = fast_timeout
    /\ longLeft' = long_timeout
    /\ pc' = "select"
    /\ attempts' = n
    /\ emitted' = 0
    /\ silent' = FALSE

\* The head of the queue gets the guard and calls render / ast / version, which
\* calls run: tries_left = 2 and the first attempt begins.  With no child in the
\* handle, communicate's take().unwrap() panics and the guard is dropped.
Acquire ==
    /\ UNCHANGED otherVars
    /\ LockFree
    /\ queue # <<>>
    /\ LET c == Head(queue) IN
        /\ queue' = Tail(queue)
        /\ IF child # 0
           THEN /\ lock' = c
                /\ callerPc' = [callerPc EXCEPT ![c] = "running"]
                /\ tries_left' = RetryBudget
                /\ StartAttempt(c, 1)
           ELSE /\ lock' = 0
                /\ callerPc' = [callerPc EXCEPT ![c] = "done"]
                /\ UNCHANGED <<tries_left, fut, child, inner, held, timerVars, pc,
                               attempts, emitted, silent>>
    /\ UNCHANGED <<callerReq, ret, cause, errAtt, nproc, procs, abandoned, killVars,
                   sinkVars, progressLeft, replaces, fails, timeouts>>

\* (A run that hands back a Version frame whatever frame communicate returned.)
RunReturn_OtherFrame(runOut, frame, ea) ==
    /\ ret' = [out |-> IF runOut = "ok" THEN Wrap(callerReq[lock], "Version") ELSE runOut,
               frame |-> IF runOut = "ok" THEN "Version" ELSE frame, errAtt |-> ea]
    /\ pc' = "ret"
    /\ inner' = <<>>
    /\ held' = 0
    /\ fastLeft' = 0
    /\ longLeft' = 0
\* Worker::run returns; render / ast / version checks the variant of an
\* Ok(response) and returns to the command.  The futures and the channel of the
\* attempt are gone.
RunReturn(runOut, frame, ea) ==
    /\ ret' = [out |-> IF runOut = "ok" THEN Wrap(callerReq[lock], frame) ELSE runOut,
               frame |-> frame, errAtt |-> ea]
    /\ pc' = "ret"
    /\ inner' = <<>>
    /\ held' = 0
    /\ fastLeft' = 0
    /\ longLeft' = 0

\* The render command's receive loop takes one progress item.
Consume ==
    /\ UNCHANGED otherVars
    /\ outer # <<>>
    /\ consumed' = Append(consumed, Head(outer))
    /\ outer' = Tail(outer)
    /\ UNCHANGED <<callerVars, runVars, procVars, fut, abandoned, killVars, inner,
                   held, timerVars, progressLeft, histVars, emitted, silent>>

\* (An earlier revision of run: every communicate gets a clone of the caller's
\* sender, which its blocking task keeps for as long as it runs.)
OuterSenders_TaskClone ==
    (IF lock # 0 /\ callerReq[lock] = "Render" /\ pc \in {"select", "forward", "hc", "kill"}
     THEN {0} ELSE {})
      \cup abandoned
\* Who holds a Sender of the render command's progress channel: run, in its
\* argument progress_channel_outer, from the call to its return (0 stands
\* for run).  communicate and its blocking task get the sender of run's own
\* channel only.
OuterSenders ==
    IF lock # 0 /\ callerReq[lock] = "Render" /\ pc \in {"select", "forward", "hc", "kill"}
    THEN {0} ELSE {}

\* The command has its result and drops the guard.  ast and version do so at
\* once; render first joins its receive loop, whose recv() returns None once
\* every sender is dropped and the channel is drained.
Release ==
    /\ UNCHANGED otherVars
    /\ pc = "ret"
    /\ OuterSenders = {}
    /\ outer = <<>>
    /\ callerPc' = [callerPc EXCEPT ![lock] = "done"]
    /\ lock' = 0
    /\ pc' = "idle"
    /\ ret' = NoRet
    /\ tries_left' = 0
    /\ cause' = "none"
    /\ errAtt' = 0
    /\ consumed' = <<>>
    /\ attempts' = 0
    /\ replaces' = 0
    /\ fails' = 0
    /\ timeouts' = 0
    /\ emitted' = 0
    /\ silent' = FALSE
    /\ UNCHANGED <<callerReq, queue, procVars, fut, abandoned, killVars, inner, held,
                   outer, timerVars, progressLeft>>

(* --------------- Process::communicate: the blocking task --------------- *)
\* bincode::serialize_into(child.stdin, &request): the Request frame goes into
\* the pipe; the write can fail only on a process whose earlier communicate
\* failed (it may have closed its end).
TaskWrite ==
    /\ UNCHANGED otherVars
    /\ fut.st = "write"
    /\ LET i == fut.proc IN
       \E ok \in BOOLEAN :
        /\ ok \/ procs[i].failed # "no"
        /\ IF ok
           THEN /\ procs' = [procs EXCEPT ![i].pending = @ + 1]
                /\ fut' = [fut EXCEPT !.st = "read"]
           ELSE /\ procs' = procs
                /\ fut' = [fut EXCEPT !.st = "done", !.res = "err"]
    /\ UNCHANGED <<callerVars, runVars, child, nproc, abandoned, killVars, inner, held,
                   sinkVars, timerVars, progressLeft, histVars, emitted, silent>>

\* bincode::deserialize_from(child.stdout) yields a Progress frame, which is
\* handed to blocking_send.  (Without a channel, in the health check, the frame
\* is dropped and the loop reads on: no state changes.)
TaskReadProgress ==
    /\ UNCHANGED otherVars
    /\ fut.st = "read"
    /\ ~fut.hc
    /\ ~fut.hung
    /\ progressLeft > 0
    /\ progressLeft' = progressLeft - 1
    /\ emitted' = emitted + 1
    /\ fut' = [fut EXCEPT !.st = "send", !.item = emitted + 1]
    /\ UNCHANGED <<callerVars, runVars, procVars, abandoned, killVars, inner, held,
                   sinkVars, timerVars, histVars, silent>>

\* deserialize_from yields a terminal frame: inner returns Ok(response).
TaskReadTerminal(f) ==
    /\ UNCHANGED otherVars
    /\ fut.st = "read"
    /\ f \in Answers(IF fut.hc THEN "Version" ELSE callerReq[fut.owner])
    /\ ~fut.hung
    /\ procs' = [procs EXCEPT ![fut.proc].pending = @ - 1]
    /\ fut' = [fut EXCEPT !.st = "done", !.res = f]
    /\ UNCHANGED <<callerVars, runVars, child, nproc, abandoned, killVars, inner, held,
                   sinkVars, timerVars, progressLeft, histVars, emitted, silent>>

\* deserialize_from fails: an undecodable frame, or end of stream because the
\* worker closed its output after accepting the request (a crash).
TaskReadError ==
    /\ UNCHANGED otherVars
    /\ fut.st = "read"
    /\ ~fut.hung
    /\ fut' = [fut EXCEPT !.st = "done", !.res = "err"]
    /\ UNCHANGED <<callerVars, runVars, procVars, abandoned, killVars, inner, held,
                   sinkVars, timerVars, progressLeft, histVars, emitted, silent>>

\* chan.blocking_send(progress) returns once the channel has room.
TaskSend ==
    /\ UNCHANGED otherVars
    /\ fut.st = "send"
    /\ Len(inner) < InnerCap
    /\ inner' = Append(inner, fut.item)
    /\ fut' = [fut EXCEPT !.st = "read", !.item = 0]
    /\ UNCHANGED <<callerVars, runVars, procVars, abandoned, killVars, held, sinkVars,
                   timerVars, progressLeft, histVars, emitted, silent>>

\* The worker process stops answering for ever (a loop, a deadlock).
WorkerHang ==
    /\ UNCHANGED otherVars
    /\ fut.st = "read"
    /\ ~fut.hung
    /\ fut' = [fut EXCEPT !.hung = TRUE]
    /\ UNCHANGED <<callerVars, runVars, procVars, abandoned, killVars, inner, held,
                   sinkVars, timerVars, progressLeft, histVars, emitted, silent>>

\* A blocking task whose future was dropped reads on (its sends fail, the
\* receiver is gone) until a terminal frame or an error, if one ever comes;
\* then it returns and the Child it owns is dropped, neither killed nor waited on.
AbandonedFinish(i) ==
    /\ UNCHANGED otherVars
    /\ i \in abandoned
    /\ abandoned' = abandoned \ {i}
    /\ procs' = [procs EXCEPT ![i].st = "dropped"]
    /\ UNCHANGED <<callerVars, runVars, child, nproc, fut, killVars, inner, held,
                   sinkVars, timerVars, progressLeft, histVars, emitted, silent>>

(* ----------------------- Process::replace, part 1 ---------------------- *)
\* run calls self.process.replace() after a failed attempt (why: "io" or
\* "timeout"); cur is what self.process.child holds, P the process table.
\* replace calls spawn: Command::spawn either fails, and the error leaves run
\* through `?`, or creates a process whose health check (communicate(Version,
\* None), under no timeout) is then awaited.
BeginReplace(why, cur, P) ==
    /\ replaces' = replaces + 1
    /\ child' = cur
    /\ \E spawned \in BOOLEAN :
        IF spawned
        THEN /\ nproc < MaxProc
             /\ nproc' = nproc + 1
             /\ procs' = [P EXCEPT ![nproc + 1].st = "live"]
             /\ fut' = [proc |-> nproc + 1, hc |-> TRUE, st |-> "write", res |-> "none",
                        item |-> 0, hung |-> FALSE, owner |-> lock]
             /\ pc' = "hc"
             /\ cause' = why
             /\ errAtt' = attempts
             /\ inner' = <<>>
             /\ held' = 0
             /\ fastLeft' = 0
             /\ longLeft' = 0
             /\ UNCHANGED ret
        ELSE /\ nproc' = nproc
             /\ procs' = P
             /\ fut' = NoFut
             /\ RunReturn("spawn", "none", attempts)
             /\ UNCHANGED <<cause, errAtt>>

(* ------------------- Worker::run: the select loop ---------------------- *)
\* (A communicate that does not put the child back.)
PutBack_None(i) == 0
\* self.child = Some(child): what the handle holds once communicate has
\* joined its task, which owned process i.
PutBack(i) == i

\* (Render(Err(..)) taken for a failed communicate.)
RunOk_CompileErrorFails(kind, res) == res \in Terminals \ {"RenderErr"}
\* (A terminal frame of another variant than the request taken for a failed
\* communicate.)
RunOk_VariantChecked(kind, res) == res \in Terminals /\ Wrap(kind, res) # "protocol"
\* The arm Ok(Ok(response)) of run's match, for a request of a kind and the
\* result res of the communicate task: every terminal frame is a response,
\* whatever its variant and whatever the kind.
RunOk(kind, res) == res \in Terminals

\* Branch `res = fut.as_mut()`: the blocking task is joined and the child put
\* back into the handle.  Ok(Ok(response)) returns it; Ok(Err(error)) calls replace.
SelectFut ==
    /\ UNCHANGED otherVars
    /\ pc = "select"
    /\ fut.st = "done"
    /\ LET i == fut.proc IN
        IF RunOk(callerReq[lock], fut.res)
        THEN /\ child' = PutBack(i)
             /\ fut' = NoFut
             /\ RunReturn("ok", fut.res, 0)
             /\ UNCHANGED <<nproc, procs, cause, errAtt, replaces, fails>>
        ELSE /\ fails' = fails + 1
             /\ BeginReplace("io", PutBack(i), [procs EXCEPT ![i].failed = "io"])
    /\ UNCHANGED <<callerVars, tries_left, abandoned, killVars, sinkVars, progressLeft,
                   attempts, timeouts, emitted, silent>>

\* (A select loop that resets the fast timeout only when it has a caller
\* channel to forward the item to.)
SelectProgress_ResetWithSink ==
    /\ UNCHANGED otherVars
    /\ pc = "select"
    /\ inner # <<>>
    /\ inner' = Tail(inner)
    /\ IF callerReq[lock] = "Render"
       THEN /\ fastLeft' = fast_timeout
            /\ IF Len(outer) < OuterCap
               THEN /\ outer' = Append(outer, Head(inner))
                    /\ UNCHANGED <<held, pc>>
               ELSE /\ held' = Head(inner)
                    /\ pc' = "forward"
                    /\ outer' = outer
       ELSE UNCHANGED <<outer, held, pc, fastLeft>>
    /\ UNCHANGED <<callerVars, ret, tries_left, cause, errAtt, procVars, fut, abandoned,
                   killVars, consumed, longLeft, progressLeft, histVars, emitted,
                   silent>>
\* Branch `Some(progress) = progress_inner_recv.recv()`: the fast timeout is
\* reset and the item sent on to the caller's channel, if there is one;
\* outer.send(..).await suspends while that channel is full.
SelectProgress ==
    /\ UNCHANGED otherVars
    /\ pc = "select"
    /\ inner # <<>>
    /\ inner' = Tail(inner)
    /\ fastLeft' = fast_timeout
    /\ IF callerReq[lock] = "Render"
       THEN IF Len(outer) < OuterCap
            THEN /\ outer' = Append(outer, Head(inner))
                 /\ UNCHANGED <<held, pc>>
            ELSE /\ held' = Head(inner)
                 /\ pc' = "forward"
                 /\ outer' = outer
       ELSE UNCHANGED <<outer, held, pc>>
    /\ UNCHANGED <<callerVars, ret, tries_left, cause, errAtt, procVars, fut, abandoned,
                   killVars, consumed, longLeft, progressLeft, histVars, emitted,
                   silent>>

\* outer.send(progress).await completes: the channel has room again.
Forward ==
    /\ UNCHANGED otherVars
    /\ pc = "forward"
    /\ Len(outer) < OuterCap
    /\ outer' = Append(outer, held)
    /\ held' = 0
    /\ pc' = "select"
    /\ UNCHANGED <<callerVars, ret, tries_left, cause, errAtt, procVars, fut, abandoned,
                   killVars, inner, consumed, timerVars, progressLeft, histVars, emitted,
                   silent>>

\* (A timeout that bails without calling replace.)
TimeoutBreak_NoReplace ==
    LET i == fut.proc IN
        /\ abandoned' = IF fut.st = "done" THEN abandoned ELSE abandoned \cup {i}
        /\ fails' = fails + 1
        /\ timeouts' = timeouts + 1
        /\ procs' = [procs EXCEPT ![i].failed = "timeout",
                                  ![i].st = IF fut.st = "done" THEN "dropped" ELSE @]
        /\ child' = 0
        /\ fut' = NoFut
        /\ RunReturn("timeout", "none", attempts)
        /\ UNCHANGED <<callerVars, tries_left, cause, errAtt, nproc, killVars, sinkVars,
                       progressLeft, attempts, replaces, emitted, silent>>
\* break Err(Timeout): the communicate future is dropped.  A task that had
\* finished loses its result and the Child in it; a task still running keeps
\* the Child and runs on.  The handle's child stays None.  Then replace is called.
TimeoutBreak ==
    LET i == fut.proc
        P == [procs EXCEPT ![i].failed = "timeout",
                           ![i].st = IF fut.st = "done" THEN "dropped" ELSE @]
    IN  /\ abandoned' = IF fut.st = "done" THEN abandoned ELSE abandoned \cup {i}
        /\ fails' = fails + 1
        /\ timeouts' = timeouts + 1
        /\ BeginReplace("timeout", 0, P)
        /\ UNCHANGED <<callerVars, tries_left, killVars, sinkVars, progressLeft,
                       attempts, emitted, silent>>

\* Branch `() = fast_timeout_fut.as_mut()`.
SelectFastTimeout ==
    /\ UNCHANGED otherVars
    /\ pc = "select"
    /\ fastLeft = 0
    /\ TimeoutBreak

\* Branch `() = long_timeout_fut.as_mut()`.
SelectLongTimeout ==
    /\ UNCHANGED otherVars
    /\ pc = "select"
    /\ longLeft = 0
    /\ TimeoutBreak

\* (A select! that sleeps on although the long timeout has elapsed.)
SelectReady_NoLong == fut.st = "done" \/ inner # <<>> \/ fastLeft = 0
\* Some branch of select! is ready.
SelectReady == fut.st = "done" \/ inner # <<>> \/ fastLeft = 0 \/ longLeft = 0

\* Quantum seconds pass while run sits in select! with no branch ready, or
\* while it is suspended in outer.send(..).await.
Tick ==
    /\ UNCHANGED otherVars
    /\ \/ pc = "select" /\ ~SelectReady
       \/ pc = "forward" /\ (fastLeft > 0 \/ longLeft > 0)
    /\ fastLeft' = Monus(fastLeft, Quantum)
    /\ longLeft' = Monus(longLeft, Quantum)
    /\ silent' = (silent \/ (fut.st # "done" /\ Quantum >= fast_timeout))
    /\ UNCHANGED <<callerVars, runVars, procVars, fut, abandoned, killVars, inner, held,
                   sinkVars, progressLeft, histVars, emitted>>

(* ----------------------- Process::replace, part 2 ---------------------- *)
\* (The old process handed to the kill task whether or not the new one is healthy.)
HcJoin_KillsOnFailure ==
    /\ UNCHANGED otherVars
    /\ pc = "hc"
    /\ fut.st = "done"
    /\ fut' = NoFut
    /\ killTarget' = child
    /\ killPc' = IF child = 0 THEN "done" ELSE "kill"
    /\ LET n == fut.proc IN
        IF fut.res \in Terminals
        THEN /\ procs' = [procs EXCEPT ![n].healthy = TRUE]
             /\ child' = n
             /\ pc' = "kill"
             /\ UNCHANGED <<ret, inner, held, timerVars>>
        ELSE /\ procs' = [procs EXCEPT ![n].st = "dropped"]
             /\ RunReturn("spawn", "none", errAtt)
             /\ UNCHANGED child
    /\ UNCHANGED <<callerVars, tries_left, cause, errAtt, nproc, abandoned, sinkVars,
                   progressLeft, histVars, emitted, silent>>
\* (A new process swapped in whatever its health check returned.)
HcJoin_SkipsCheck ==
    /\ UNCHANGED otherVars
    /\ pc = "hc"
    /\ fut.st = "done"
    /\ fut' = NoFut
    /\ procs' = [procs EXCEPT ![fut.proc].healthy = fut.res \in Terminals]
    /\ child' = fut.proc
    /\ killTarget' = child
    /\ killPc' = IF child = 0 THEN "done" ELSE "kill"
    /\ pc' = "kill"
    /\ UNCHANGED <<callerVars, ret, tries_left, cause, errAtt, nproc, abandoned, inner,
                   held, timerVars, sinkVars, progressLeft, histVars, emitted, silent>>
\* The health check's communicate returns.  An error fails spawn: the new
\* Process is dropped and the error leaves run.  Any terminal frame passes:
\* mem::replace swaps the new Process in, and the blocking kill task gets the old.
HcJoin ==
    /\ UNCHANGED otherVars
    /\ pc = "hc"
    /\ fut.st = "done"
    /\ fut' = NoFut
    /\ LET n == fut.proc IN
        IF fut.res \in Terminals
        THEN /\ procs' = [procs EXCEPT ![n].healthy = TRUE]
             /\ child' = n
             /\ killTarget' = child
             /\ killPc' = IF child = 0 THEN "done" ELSE "kill"
             /\ pc' = "kill"
             /\ UNCHANGED <<ret, inner, held, timerVars>>
        ELSE /\ procs' = [procs EXCEPT ![n].st = "dropped"]
             /\ RunReturn("spawn", "none", errAtt)
             /\ UNCHANGED <<child, killVars>>
    /\ UNCHANGED <<callerVars, tries_left, cause, errAtt, nproc, abandoned, sinkVars,
                   progressLeft, histVars, emitted, silent>>

\* The kill task: child.kill().
KillStep ==
    /\ UNCHANGED otherVars
    /\ killPc = "kill"
    /\ procs' = [procs EXCEPT ![killTarget].st = "killed"]
    /\ killPc' = "wait"
    /\ UNCHANGED <<callerVars, runVars, child, nproc, fut, abandoned, killTarget, inner,
                   held, sinkVars, timerVars, progressLeft, histVars, emitted, silent>>

\* The kill task: child.wait().
WaitStep ==
    /\ UNCHANGED otherVars
    /\ killPc = "wait"
    /\ procs' = [procs EXCEPT ![killTarget].st = "reaped"]
    /\ killPc' = "done"
    /\ UNCHANGED <<callerVars, runVars, child, nproc, fut, abandoned, killTarget, inner,
                   held, sinkVars, timerVars, progressLeft, histVars, emitted, silent>>

\* (The kill task detached: replace does not wait for it.)
KillJoined_Detached == TRUE
\* `.await` on the kill task's JoinHandle: replace goes on once the task has ended.
KillJoined == killPc = "done"

\* (A timeout handled like an error: decrement, then return or loop.)
AfterReplace_TimeoutRetries(why, t) ==
    IF t - 1 = 0 THEN "exhausted" ELSE "retry"
\* (An error returned after the first failed attempt, without a retry.)
AfterReplace_NoRetry(why, t) ==
    IF why = "timeout" THEN "bail" ELSE "exhausted"
\* What run does once replace has returned Ok, with tries_left = t: after a
\* timeout it bails; after an error it decrements tries_left and returns the
\* error at zero, else loops.
AfterReplace(why, t) ==
    IF why = "timeout" THEN "bail"
    ELSE IF t - 1 = 0 THEN "exhausted" ELSE "retry"

\* The kill task is joined and replace returns Ok; run goes on as AfterReplace says.
KillJoin ==
    /\ UNCHANGED otherVars
    /\ pc = "kill"
    /\ KillJoined
    /\ killPc' = "none"
    /\ killTarget' = 0
    /\ LET todo == AfterReplace(cause, tries_left) IN
        IF todo = "bail"
        THEN /\ RunReturn("timeout", "none", errAtt)
             /\ UNCHANGED <<tries_left, child, fut, attempts, emitted, silent>>
        ELSE /\ tries_left' = tries_left - 1
             /\ IF todo = "exhausted"
                THEN /\ RunReturn(cause, "none", errAtt)
                     /\ UNCHANGED <<child, fut, attempts, emitted, silent>>
                ELSE /\ StartAttempt(lock, attempts + 1)
                     /\ UNCHANGED ret
    /\ UNCHANGED <<callerVars, cause, errAtt, nproc, procs, abandoned, sinkVars,
                   progressLeft, replaces, fails, timeouts>>

(* ------------------ protocol::Request on the wire (bincode) ------------ *)
\* bincode's default format, as serialize_into / deserialize_from use it: an
\* enum is the index of its variant as a little-endian u32 followed by the
\* variant's fields; a String is its length in bytes as a little-endian u64
\* followed by its UTF-8 bytes.
TagWidth == 4
LenWidth == 8
\* The bytes code strings are made of ("a", "b").
CodeBytes == {97, 98}
\* enum Request { Render { code }, Ast { code }, Version }
VariantIndex(kind) ==
    CASE kind = "Render" -> 0
      [] kind = "Ast" -> 1
      [] kind = "Version" -> 2
VariantOf(tag) ==
    CASE tag = 0 -> "Render"
      [] tag = 1 -> "Ast"
      [] tag = 2 -> "Version"
      [] OTHER -> "none"
CodeStrings == UNION {[1..n -> CodeBytes] : n \in 0..MaxCode}
Requests ==
    {[kind |-> k, code |-> c] : k \in {"Render", "Ast"}, c \in CodeStrings}
      \cup {[kind |-> "Version", code |-> <<>>]}

\* The w bytes of n, least significant first.
RECURSIVE LE(_, _)
LE(n, w) == IF w = 0 THEN <<>> ELSE <<n % 256>> \o LE(n \div 256, w - 1)
RECURSIVE FromLE(_)
FromLE(bytes) ==
    IF bytes = <<>> THEN 0 ELSE Head(bytes) + 256 * FromLE(Tail(bytes))

\* (An encoder that writes every variant with the index of the first.)
Encode_OneTag(req) ==
    LE(0, TagWidth)
      \o (IF req.kind = "Version" THEN <<>>
          ELSE LE(Len(req.code), LenWidth) \o req.code)
\* bincode::serialize_into(.., &request)
Encode(req) ==
    LE(VariantIndex(req.kind), TagWidth)
      \o (IF req.kind = "Version" THEN <<>>
          ELSE LE(Len(req.code), LenWidth) \o req.code)

\* bincode::deserialize_from on a stream holding `bytes` and then ending:
\* "ok" with the value and the bytes left; "eof" when the stream ends before
\* the value is complete, be it at its very start or in the middle (read_exact
\* fails with UnexpectedEof either way); "invalid" for an unknown variant index.
Decode(bytes) ==
    IF Len(bytes) < TagWidth
    THEN [status |-> "eof", value |-> NoReq, rest |-> <<>>]
    ELSE
      LET kind == VariantOf(FromLE(SubSeq(bytes, 1, TagWidth)))
          body == SubSeq(bytes, TagWidth + 1, Len(bytes))
      IN  IF kind = "none"
          THEN [status |-> "invalid", value |-> NoReq, rest |-> body]
          ELSE IF kind = "Version"
          THEN [status |-> "ok", value |-> [kind |-> kind, code |-> <<>>], rest |-> body]
          ELSE IF Len(body) < LenWidth
          THEN [status |-> "eof", value |-> NoReq, rest |-> <<>>]
          ELSE
            LET n == FromLE(SubSeq(body, 1, LenWidth))
                str == SubSeq(body, LenWidth + 1, Len(body))
            IN  IF Len(str) < n
                THEN [status |-> "eof", value |-> NoReq, rest |-> <<>>]
                ELSE [status |-> "ok",
                      value |-> [kind |-> kind, code |-> SubSeq(str, 1, n)],
                      rest |-> SubSeq(str, n + 1, Len(str))]

(* --------------- the worker program and the end of its stdin ----------- *)
\* The parent encodes a Request into the worker's stdin.
ParentSend(req) ==
    /\ ~wClosed
    /\ wNum < MaxReqs
    /\ wIn' = wIn \o Encode(req)
    /\ wSent' = Append(wSent, req)
    /\ wNum' = wNum + 1
    /\ UNCHANGED <<wClosed, wTrunc, wpc, wReq, wOrig, wProg, wOut>>
    /\ UNCHANGED <<brokerVars, renderVars, textVars>>

\* The parent writes a variant index that Request does not have.
ParentSendBad ==
    /\ ~wClosed
    /\ wNum < MaxReqs
    /\ wIn' = wIn \o LE(3, TagWidth)
    /\ wNum' = wNum + 1
    /\ UNCHANGED <<wClosed, wTrunc, wSent, wpc, wReq, wOrig, wProg, wOut>>
    /\ UNCHANGED <<brokerVars, renderVars, textVars>>

\* The parent's end of the pipe is closed between two Requests.
ParentClose ==
    /\ ~wClosed
    /\ wClosed' = TRUE
    /\ UNCHANGED <<wIn, wTrunc, wSent, wNum, wpc, wReq, wOrig, wProg, wOut>>
    /\ UNCHANGED <<brokerVars, renderVars, textVars>>

\* The parent's end of the pipe is closed after only the first k bytes of a
\* Request have been written (the parent died in the middle of the write).
ParentCut(req, k) ==
    /\ ~wClosed
    /\ wNum < MaxReqs
    /\ k \in 1..(Len(Encode(req)) - 1)
    /\ wIn' = wIn \o SubSeq(Encode(req), 1, k)
    /\ wClosed' = TRUE
    /\ wTrunc' = TRUE
    /\ wNum' = wNum + 1
    /\ UNCHANGED <<wSent, wpc, wReq, wOrig, wProg, wOut>>
    /\ UNCHANGED <<brokerVars, renderVars, textVars>>

\* main's loop head: deserialize_from(stdin) blocks until a value is complete
\* or the stream ends.  Err(Io(UnexpectedEof)) breaks the loop and main
\* returns; any other Err panics in res.unwrap(); Ok(request) is processed.
WRead ==
    /\ wpc = "read"
    /\ LET d == Decode(wIn) IN
        CASE d.status = "ok" ->
               /\ wReq' = d.value
               /\ wOrig' = Head(wSent)
               /\ wSent' = Tail(wSent)
               /\ wIn' = d.rest
               /\ wpc' = "work"
               /\ wProg' = 0
               /\ wOut' = <<>>
          [] d.status = "invalid" ->
               /\ wpc' = "crashed"
               /\ wIn' = d.rest
               /\ UNCHANGED <<wReq, wOrig, wSent, wProg, wOut>>
          [] d.status = "eof" ->
               /\ wClosed
               /\ wpc' = "exited"
               /\ wIn' = <<>>
               /\ UNCHANGED <<wReq, wOrig, wSent, wProg, wOut>>
    /\ UNCHANGED <<wClosed, wTrunc, wNum>>
    /\ UNCHANGED <<brokerVars, renderVars, textVars>>

\* Sandbox::ensure_package, reached from render only, writes a Progress frame
\* before it downloads a package.
WProgress ==
    /\ wpc = "work"
    /\ wReq.kind = "Render"
    /\ wProg < MaxWProgress
    /\ wProg' = wProg + 1
    /\ wOut' = Append(wOut, "Progress")
    /\ UNCHANGED <<wIn, wClosed, wTrunc, wSent, wNum, wpc, wReq, wOrig>>
    /\ UNCHANGED <<brokerVars, renderVars, textVars>>

\* How the processing of a Request can end: with a value, with a compile
\* error (render only), or with a panic of the code it calls.
Outcomes(kind) ==
    CASE kind = "Render" -> {"ok", "err", "panic"}
      [] kind = "Ast" -> {"ok", "panic"}
      [] kind = "Version" -> {"ok"}
\* The arms of main's match that run under std::panic::catch_unwind.
Trapped(kind) == kind = "Render"
\* (A worker that answers an Ast request with a Version frame.)
Respond_Mixed(kind, outcome) ==
    CASE kind = "Render" -> IF outcome = "ok" THEN "RenderOk" ELSE "RenderErr"
      [] kind = "Ast" -> "Version"
      [] kind = "Version" -> "Version"
\* The Response main's match builds: Response::Render(Ok or Err, a trapped
\* panic being an Err), Response::Ast, Response::Version.
Respond(kind, outcome) ==
    CASE kind = "Render" -> IF outcome = "ok" THEN "RenderOk" ELSE "RenderErr"
      [] kind = "Ast" -> "Ast"
      [] kind = "Version" -> "Version"

\* The match arm of the Request ends and write_response writes its Response;
\* a panic outside catch_unwind unwinds main and ends the process.  (The
\* parent keeps stdout open, so write_response succeeds.)
WFinish(outcome) ==
    /\ wpc = "work"
    /\ outcome \in Outcomes(wReq.kind)
    /\ IF outcome = "panic" /\ ~Trapped(wReq.kind)
       THEN /\ wpc' = "crashed"
            /\ wOut' = wOut
       ELSE /\ wpc' = "read"
            /\ wOut' = Append(wOut, Respond(wReq.kind, outcome))
    /\ UNCHANGED <<wIn, wClosed, wTrunc, wSent, wNum, wReq, wOrig, wProg>>
    /\ UNCHANGED <<brokerVars, renderVars, textVars>>

WorkerNext ==
    \/ \E req \in Requests : ParentSend(req)
    \/ ParentSendBad
    \/ ParentClose
    \/ \E req \in Requests, k \in 1..(TagWidth + LenWidth + MaxCode) : ParentCut(req, k)
    \/ WRead
    \/ WProgress
    \/ \E outcome \in {"ok", "err", "panic"} : WFinish(outcome)

WorkerSpec == Init /\ [][WorkerNext]_vars

(* ------------------------------ render --------------------------------- *)
PAGE_LIMIT == 5
BYTES_LIMIT == 26214400    \* 25 * 1024 * 1024
\* The byte sizes a page's PNG is drawn from.
PngSizes == {1, BYTES_LIMIT \div 2, BYTES_LIMIT}
\* A page of the compiled document: whether both of its axes are within
\* MAX_SIZE (determine_pixels_per_point returns Ok) and the size of its PNG.
Pages == {[fits |-> TRUE, len |-> n] : n \in PngSizes}
           \cup {[fits |-> FALSE, len |-> 0]}

\* (A take_while that lets every image through.)
Keep_Always(total) == TRUE
\* The predicate of take_while on an Ok image, after the image's length has
\* been added to total_attachment_size.
Keep(total) == total <= BYTES_LIMIT

\* pages.iter().take(PAGE_LIMIT).map(..).take_while(..).collect(), pulled
\* lazily page by page from page i on: an Err page passes take_while and
\* makes collect return Err; an image that take_while rejects ends the
\* iteration, and the pages after it are never rendered.
RECURSIVE Collect(_, _, _, _)
Collect(doc, i, total, images) ==
    IF i > Len(doc) \/ i > PAGE_LIMIT
    THEN [out |-> "ok", images |-> images]
    ELSE IF ~doc[i].fits
    THEN [out |-> "err", images |-> <<>>]
    ELSE IF Keep(total + doc[i].len)
    THEN Collect(doc, i + 1, total + doc[i].len,
                 Append(images, [page |-> i, len |-> doc[i].len]))
    ELSE [out |-> "ok", images |-> images]

\* render, from the compiled document on.
Render(doc) ==
    LET c == Collect(doc, 1, 0, <<>>) IN
    IF c.out = "err"
    THEN [out |-> "err", images |-> <<>>, more_pages |-> 0]
    ELSE [out |-> "ok", images |-> c.images,
          more_pages |-> Len(doc) - Len(c.images)]

\* typst::compile lays out one more page of the document.
AddPage(p) ==
    /\ rpc = "compile"
    /\ Len(rDoc) < MaxPages
    /\ rDoc' = Append(rDoc, p)
    /\ UNCHANGED <<rpc, rOut>>
    /\ UNCHANGED <<brokerVars, workerVars, textVars>>

\* typst::compile returns diagnostics: render returns Err by the first `?`.
CompileError ==
    /\ rpc = "compile"
    /\ rpc' = "done"
    /\ rDoc' = <<>>
    /\ rOut' = [out |-> "err", images |-> <<>>, more_pages |-> 0]
    /\ UNCHANGED <<brokerVars, workerVars, textVars>>

\* typst::compile returns the document and render goes through its pages.
DoRender ==
    /\ rpc = "compile"
    /\ rpc' = "done"
    /\ rOut' = Render(rDoc)
    /\ UNCHANGED rDoc
    /\ UNCHANGED <<brokerVars, workerVars, textVars>>

RenderNext ==
    \/ \E p \in Pages : AddPage(p)
    \/ CompileError
    \/ DoRender

RenderSpec == Init /\ [][RenderNext]_vars

(* ------------------- code blocks in chat messages (bot.rs) ------------- *)
\* Strings are sequences of code points.
Backtick == 96
\* const ZERO_WIDTH_JOINER: char = '\u{200D}';
ZERO_WIDTH_JOINER == 8205
\* The code points texts are made of: the two above and "a".
MarkChars == {Backtick, ZERO_WIDTH_JOINER, 97}

\* "```"
Fence == <<Backtick, Backtick, Backtick>>
\* "``{ZERO_WIDTH_JOINER}`"
Escaped == <<Backtick, Backtick, ZERO_WIDTH_JOINER, Backtick>>
\* format!("`{ZERO_WIDTH_JOINER}`") and "``" of pop_from
Pattern == <<Backtick, ZERO_WIDTH_JOINER, Backtick>>
Replacement == <<Backtick, Backtick>>

StartsWith(s, p) == Len(s) >= Len(p) /\ SubSeq(s, 1, Len(p)) = p
EndsWith(s, p) == Len(s) >= Len(p) /\ SubSeq(s, Len(s) - Len(p) + 1, Len(s)) = p

\* str::split_inclusive("```"): the matches are found from left to right and
\* do not overlap; each section ends with its match, the last one holds what
\* is left, if anything.  cur is the section being gathered.
RECURSIVE Sections(_, _)
Sections(rest, cur) ==
    IF rest = <<>> THEN (IF cur = <<>> THEN <<>> ELSE <<cur>>)
    ELSE IF StartsWith(rest, Fence)
    THEN <<cur \o Fence>> \o Sections(SubSeq(rest, Len(Fence) + 1, Len(rest)), <<>>)
    ELSE Sections(Tail(rest), Append(cur, Head(rest)))

\* write!(formatter, "``{ZERO_WIDTH_JOINER}`") after what has been written.
Escape(out) == out \o Escaped

\* Helper::fmt: each section is written without its "```" suffix, and the
\* escaped fence after it if it had one.  text is what has been written,
\* inserted the positions of the joiners written by the function.
RECURSIVE Fmt(_, _, _)
Fmt(sections, text, inserted) ==
    IF sections = <<>> THEN [text |-> text, inserted |-> inserted]
    ELSE
      LET section == Head(sections)
          should_append == EndsWith(section, Fence)
          safe == IF should_append
                  THEN SubSeq(section, 1, Len(section) - Len(Fence)) ELSE section
          written == text \o safe
      IN  IF should_append
          THEN Fmt(Tail(sections), Escape(written),
                   inserted \cup {i \in (Len(written) + 1)..Len(Escape(written)) :
                                     Escape(written)[i] = ZERO_WIDTH_JOINER})
          ELSE Fmt(Tail(sections), written, inserted)

\* sanitize_code_block(raw), formatted
sanitize_code_block(raw) == Fmt(Sections(raw, <<>>), <<>>, {})

\* str::replace(&pattern, replacement): the matches are found from left to
\* right and do not overlap.
RECURSIVE Replace(_)
Replace(s) ==
    IF s = <<>> THEN <<>>
    ELSE IF StartsWith(s, Pattern)
    THEN Replacement \o Replace(SubSeq(s, Len(Pattern) + 1, Len(s)))
    ELSE <<Head(s)>> \o Replace(Tail(s))

\* (A single replace pass.)
Unescape_OnePass(source) == Replace(source)
\* CodeBlock::pop_from: source.replace(..).replace(..)
Unescape(source) == Replace(Replace(source))

\* One more character of the text.
TypeChar(c) ==
    /\ tpc = "input"
    /\ Len(tIn) < MaxText
    /\ tIn' = Append(tIn, c)
    /\ UNCHANGED <<tpc, tOut>>
    /\ UNCHANGED <<brokerVars, workerVars, renderVars>>

\* The render command formats its progress text for a code block.
DoSanitize ==
    /\ tpc = "input"
    /\ tpc' = "done"
    /\ tOut' = [fn |-> "sanitize", val |-> sanitize_code_block(tIn)]
    /\ UNCHANGED tIn
    /\ UNCHANGED <<brokerVars, workerVars, renderVars>>

\* A command takes its code block argument out of the message.
DoUnescape ==
    /\ tpc = "input"
    /\ tpc' = "done"
    /\ tOut' = [fn |-> "unescape", val |-> Unescape(tIn)]
    /\ UNCHANGED tIn
    /\ UNCHANGED <<brokerVars, workerVars, renderVars>>

TextNext ==
    \/ \E c \in MarkChars : TypeChar(c)
    \/ DoSanitize
    \/ DoUnescape

TextSpec == Init /\ [][TextNext]_vars

(* -------------- spans of diagnostics (worker/src/diagnostic.rs) -------- *)
\* The code points sources are made of, one for each UTF-8 length:
\* "a", U+00E9, U+3042, U+1F600.
WideChars == {97, 233, 12354, 128512}
\* char::len_utf8
len_utf8(ch) ==
    IF ch < 128 THEN 1 ELSE IF ch < 2048 THEN 2 ELSE IF ch < 65536 THEN 3 ELSE 4
\* str::len: the length in bytes.
RECURSIVE ByteLen(_)
ByteLen(source) ==
    IF source = <<>> THEN 0 ELSE len_utf8(Head(source)) + ByteLen(Tail(source))

\* (A loop that stops only before a character that lies wholly past the index.)
Stops_Late(byte_index, first_byte, ch) == byte_index + 1 < first_byte + len_utf8(ch)
\* if byte_index < ret.first_byte + ch.len_utf8() { break; }
Stops(byte_index, first_byte, ch) == byte_index < first_byte + len_utf8(ch)

\* The loop of byte_index_to_char_index over the characters not yet visited;
\* at is the local `ret`.
RECURSIVE CharLoop(_, _, _)
CharLoop(chars, byte_index, at) ==
    IF chars = <<>> \/ Stops(byte_index, at.first_byte, Head(chars)) THEN at
    ELSE CharLoop(Tail(chars), byte_index,
                  [first_byte |-> at.first_byte + len_utf8(Head(chars)),
                   char_index |-> at.char_index + 1])

byte_index_to_char_index(source, byte_index) ==
    CharLoop(source, byte_index, [first_byte |-> 0, char_index |-> 0])

\* &source[first_byte..]: the characters from a character boundary on.
RECURSIVE SliceFrom(_, _)
SliceFrom(source, first_byte) ==
    IF first_byte = 0 \/ source = <<>> THEN source
    ELSE SliceFrom(Tail(source), first_byte - len_utf8(Head(source)))

\* impl Add for CharIndex
AddIndex(a, b) ==
    [first_byte |-> a.first_byte + b.first_byte, char_index |-> a.char_index + b.char_index]

None == [some |-> FALSE, start |-> 0, end |-> 0]
\* (An end looked up from the start of the source.)
byte_span_to_char_span_Absolute(source, start, end) ==
    IF start > end THEN None
    ELSE [some |-> TRUE,
          start |-> byte_index_to_char_index(source, start).char_index,
          end |-> byte_index_to_char_index(source, end).char_index]
\* byte_span_to_char_span(source, start..end)
byte_span_to_char_span(source, start, end) ==
    IF start > end THEN None
    ELSE
      LET s == byte_index_to_char_index(source, start)
          e == AddIndex(byte_index_to_char_index(SliceFrom(source, s.first_byte),
                                                 end - start), s)
      IN  [some |-> TRUE, start |-> s.char_index, end |-> e.char_index]

\* One more character of the source.
TypeWide(c) ==
    /\ tpc = "input"
    /\ Len(tIn) < MaxSource
    /\ tIn' = Append(tIn, c)
    /\ UNCHANGED <<tpc, tOut>>
    /\ UNCHANGED <<brokerVars, workerVars, renderVars>>

\* byte_index_to_char_index is called with an index up to one past the end.
DoCharIndex(i) ==
    /\ tpc = "input"
    /\ i \in 0..(ByteLen(tIn) + 1)
    /\ tpc' = "done"
    /\ tOut' = [fn |-> "index", val |-> [arg |-> <<i>>,
                                         ret |-> byte_index_to_char_index(tIn, i)]]
    /\ UNCHANGED tIn
    /\ UNCHANGED <<brokerVars, workerVars, renderVars>>

\* byte_span_to_char_span is called with a span whose ends are up to one
\* past the end, in either order.
DoCharSpan(start, end) ==
    /\ tpc = "input"
    /\ start \in 0..(ByteLen(tIn) + 1)
    /\ end \in 0..(ByteLen(tIn) + 1)
    /\ tpc' = "done"
    /\ tOut' = [fn |-> "span", val |-> [arg |-> <<start, end>>,
                                        ret |-> byte_span_to_char_span(tIn, start, end)]]
    /\ UNCHANGED tIn
    /\ UNCHANGED <<brokerVars, workerVars, renderVars>>

SpanNext ==
    \/ \E c \in WideChars : TypeWide(c)
    \/ \E i \in 0..(4 * MaxSource + 1) : DoCharIndex(i)
    \/ \E start, end \in 0..(4 * MaxSource + 1) : DoCharSpan(start, end)

SpanSpec == Init /\ [][SpanNext]_vars

Next ==
    \/ \E c \in Callers, kind \in Kinds : Arrive(c, kind)
    \/ Acquire
    \/ Consume
    \/ Release
    \/ TaskWrite
    \/ TaskReadProgress
    \/ \E f \in Terminals : TaskReadTerminal(f)
    \/ TaskReadError
    \/ TaskSend
    \/ WorkerHang
    \/ \E i \in Procs : AbandonedFinish(i)
    \/ SelectFut
    \/ SelectProgress
    \/ Forward
    \/ SelectFastTimeout
    \/ SelectLongTimeout
    \/ Tick
    \/ HcJoin
    \/ KillStep
    \/ WaitStep
    \/ KillJoin

Spec == Init /\ [][Next]_vars

\* The runtime keeps scheduling: while some step is possible, one is taken.
FairSpec == Spec /\ WF_vars(Next)

(* ------------------------------ claims -------------------------------- *)
\* The steps of the command that holds the lock: its run, the blocking tasks
\* it awaits, the clock of its timers, its receive loop and its release.
RunStep ==
    \/ TaskWrite
    \/ TaskReadProgress
    \/ \E f \in Terminals : TaskReadTerminal(f)
    \/ TaskReadError
    \/ TaskSend
    \/ SelectFut
    \/ SelectProgress
    \/ Forward
    \/ SelectFastTimeout
    \/ SelectLongTimeout
    \/ Tick
    \/ HcJoin
    \/ KillStep
    \/ WaitStep
    \/ KillJoin
    \/ Consume
    \/ Release

\* The sequence 1, 2, .., n.
UpTo(n) == [k \in 1..n |-> k]
\* What the caller's progress sink has been sent, in order.
Sunk == consumed \o outer

\* C1: a run never makes more than 2 communicate attempts, and it returns a
\* transport error only after exactly 2 attempts, both failed and both followed
\* by a replace, the error being that of attempt 2.
C1_RetryBudgetExhaustion ==
    /\ attempts <= 2
    /\ (pc = "ret" /\ ret.out = "io")
         => (attempts = 2 /\ fails = 2 /\ timeouts = 0 /\ replaces = 2 /\ ret.errAtt = 2)

C1_Witness == pc = "ret" /\ ret.out = "io" /\ attempts = 2 /\ ret.errAtt = 2

C3_BoundedLatency == lock # 0 => ENABLED RunStep

\* C4: a Request frame is written to a process only if no communicate on it
\* has failed or been abandoned and every earlier request to it is resolved.
C4_NoStaleReuse ==
    [][\A i \in Procs :
         procs'[i].pending > procs[i].pending
           => (procs[i].failed = "no" /\ procs[i].pending = 0)]_vars

\* C5: when run returns the Render(Ok) frame of the first attempt of a render,
\* the sink has been sent exactly the Progress items the worker emitted, in order.
C5_ProgressRelay ==
    (pc = "ret" /\ ret.out = "ok" /\ callerReq[lock] = "Render" /\ attempts = 1)
      => Sunk = UpTo(emitted)

\* C6: an attempt whose task ended in an error, joined before either timeout
\* has run out, leads to replace with cause "io"; once replace has returned
\* after the first such failure, run starts attempt 2 for the same caller on the
\* new, healthy, unused process; and the terminal frame of attempt 2, joined
\* before either timeout has run out, is what run returns.
C6_CrashRecovery ==
    [][/\ (pc = "select" /\ fut.st = "done" /\ fut.res = "err"
            /\ fastLeft > 0 /\ longLeft > 0 /\ fut' # fut)
          => (replaces' = replaces + 1 /\ timeouts' = timeouts
              /\ ((pc' = "hc" /\ cause' = "io") \/ (pc' = "ret" /\ ret'.out = "spawn")))
       /\ (pc = "kill" /\ cause = "io" /\ attempts = 1 /\ pc' # "kill")
          => (/\ pc' = "select"
              /\ attempts' = 2
              /\ fut'.proc = child /\ fut'.owner = lock /\ lock' = lock
              /\ callerReq' = callerReq
              /\ procs[child].healthy /\ procs[child].pending = 0
              /\ procs[child].failed = "no")
       /\ (pc = "select" /\ attempts = 2 /\ fut.res \in Terminals
            /\ fastLeft > 0 /\ longLeft > 0 /\ fut' # fut)
          => (pc' = "ret" /\ ret'.frame = fut.res
              /\ ret'.out = Wrap(callerReq[lock], fut.res))
      ]_vars

C6_Witness ==
    pc = "ret" /\ attempts = 2 /\ ret.out = "ok" /\ fails = 1 /\ timeouts = 0

\* C7: at most one command is being served; it is the lock holder, the run
\* state and every awaited communicate belong to it.
C7_MutualExclusion ==
    /\ Cardinality({c \in Callers : callerPc[c] = "running"}) <= 1
    /\ \A c \in Callers : callerPc[c] = "running" <=> lock = c
    /\ pc # "idle" <=> lock # 0
    /\ fut.proc # 0 => fut.owner = lock
    /\ \A i \in 1..Len(queue) : callerPc[queue[i]] = "waiting"

C7_Witness == lock # 0 /\ pc = "select" /\ fut.st = "read" /\ queue # <<>>

\* C8: every failed attempt has had its replace called before tries_left is
\* decremented, before the next attempt starts and before run returns; only a
\* timed-out attempt leaves a task running behind.
C8_ReplaceOnEveryFailure ==
    /\ replaces = fails
    /\ pc \in {"select", "forward"} => (attempts = fails + 1 /\ tries_left = 2 - fails)
    /\ pc \in {"hc", "kill"} => (attempts = fails /\ tries_left = 2 - (fails - 1))
    /\ (pc = "ret" /\ ret.out \in {"io", "timeout", "spawn"}) => replaces = attempts
    /\ \A i \in abandoned : procs[i].failed = "timeout"

C8_Witness == pc = "kill" /\ cause = "timeout" /\ replaces = 1 /\ tries_left = 2

\* The process that serves requests: the handle's child, or the one the
\* awaited communicate of a caller request has taken from it.
Current == IF child # 0 THEN child ELSE IF fut.hc THEN 0 ELSE fut.proc

\* C9: a process is killed only while replace runs, after the swap: the handle
\* then holds another process, which is live and has passed its health check;
\* the current process is never a killed one.
C9_ReplacementOrdering ==
    /\ Current # 0 => procs[Current].st = "live"
    /\ killPc \in {"kill", "wait"}
         => /\ pc = "kill"
            /\ child # 0 /\ child # killTarget
            /\ procs[child].healthy /\ procs[child].st = "live"
    /\ \A i \in Procs :
         procs[i].st \in {"killed", "reaped"}
           => \E j \in Procs : j > i /\ procs[j].healthy

C9_Witness == killPc = "wait" /\ procs[killTarget].st = "killed" /\ procs[child].healthy

Replaced(i) ==
    /\ procs[i].healthy
    /\ i # Current
    /\ killPc = "none"
    /\ \E j \in Procs : j > i /\ procs[j].healthy

\* C11: every process that has been replaced is eventually killed and then
\* waited on, whether an error or a timeout caused the replacement.
C11_ReplacedIsReaped ==
    \A i \in Procs : [](Replaced(i) => <>(procs[i].st = "reaped"))

\* The awaited communicate of a caller request is joined by the select loop
\* before either timeout has run out.
JoinedInTime ==
    /\ pc = "select" /\ fut.st = "done" /\ ~fut.hc
    /\ fastLeft > 0 /\ longLeft > 0
    /\ fut' # fut

\* C12: a Render(Err) frame answering the first attempt of a render makes
\* render return the compile error at once: no replace, no second attempt,
\* the retry budget untouched, the process kept.  Whenever render returns a
\* compile error, the returned frame is Render(Err) and every replace of the
\* run belongs to an earlier failed attempt.
C12_CompileErrorNotRetried ==
    /\ [][(JoinedInTime /\ attempts = 1 /\ fut.res = "RenderErr")
            => (/\ pc' = "ret" /\ ret'.out = "compile" /\ ret'.frame = "RenderErr"
                /\ attempts' = 1 /\ replaces' = 0 /\ fails' = 0
                /\ tries_left' = RetryBudget
                /\ nproc' = nproc /\ child' = fut.proc)]_vars
    /\ []((pc = "ret" /\ ret.out = "compile")
            => (/\ ret.frame = "RenderErr" /\ callerReq[lock] = "Render"
                /\ replaces = attempts - 1 /\ fails = attempts - 1))
    /\ []((pc = "ret" /\ ret.frame = "RenderErr") => ret.out = "compile")

C12_Witness ==
    pc = "ret" /\ ret.out = "compile" /\ attempts = 1 /\ replaces = 0 /\ nproc = 1

\* C13 as stated: a protocol violation reaches the caller only once the retry
\* budget is used up, every attempt having been followed by a replace.
C13_ProtocolViolationRetried ==
    (pc = "ret" /\ ret.out = "protocol") => (attempts = RetryBudget /\ replaces = attempts)

\* C13 amended: a terminal frame of the wrong variant is a success of run: the
\* step that joins it returns the protocol error to the caller with no
\* replace, no further attempt and the retry budget as it was, and the process
\* that sent it stays the handle's process.
C13_ProtocolViolationSurfaced ==
    /\ [][(JoinedInTime /\ fut.res \in Terminals
             /\ Wrap(callerReq[lock], fut.res) = "protocol")
            => (/\ pc' = "ret" /\ ret'.out = "protocol" /\ ret'.frame = fut.res
                /\ attempts' = attempts /\ replaces' = replaces
                /\ tries_left' = tries_left
                /\ nproc' = nproc /\ child' = fut.proc)]_vars
    /\ []((pc = "ret" /\ ret.out = "protocol")
            => (/\ ret.frame \in Terminals
                /\ replaces = attempts - 1 /\ fails = attempts - 1
                /\ child # 0 /\ procs[child].st = "live"))

C13_Witness ==
    /\ pc = "ret" /\ ret.out = "protocol" /\ attempts = 1 /\ replaces = 0
    /\ child = 1 /\ tries_left = RetryBudget

\* The variant render / ast / version expects.
Matches(kind, frame) ==
    \/ kind = "Render" /\ frame \in {"RenderOk", "RenderErr"}
    \/ kind = "Ast" /\ frame = "Ast"
    \/ kind = "Version" /\ frame = "Version"

\* C14: the variant check yields a success only for a frame of the request's
\* variant and an error for every other terminal frame, for all kinds and
\* frames; and what a command gets back after run returned a frame is what
\* the check yields: "ok" only on a match, "protocol" on every mismatch.
C14_VariantCheck ==
    /\ \A kind \in Kinds, frame \in Terminals :
         /\ Wrap(kind, frame) = "ok" => Matches(kind, frame)
         /\ ~Matches(kind, frame) <=> Wrap(kind, frame) = "protocol"
    /\ (pc = "ret" /\ ret.frame # "none")
         => /\ ret.out = "ok" => Matches(callerReq[lock], ret.frame)
            /\ ~Matches(callerReq[lock], ret.frame) => ret.out = "protocol"
    /\ (pc = "ret" /\ ret.out = "ok") => ret.frame \in Terminals

C14_Witness ==
    pc = "ret" /\ callerReq[lock] = "Render" /\ ret.frame = "Version" /\ ret.out = "protocol"

\* C15: a process becomes the handle's process only in the step that joins its
\* own health check, with a terminal frame for the one Version request written
\* to it; until then it gets no caller request; a health check that fails ends
\* replace with the spawn error, the new process dropped and the handle as it
\* was; so the process serving requests has always passed its health check.
C15_HealthCheckOnSpawn ==
    /\ [](Current # 0 => procs[Current].healthy)
    /\ [](\A i \in Procs :
            ~procs[i].healthy
              => (/\ i # child
                  /\ procs[i].pending <= 1
                  /\ fut.proc = i => fut.hc
                  /\ procs[i].st = "live" => (pc = "hc" /\ fut.proc = i)))
    /\ [][\A i \in Procs :
            (procs'[i].healthy /\ ~procs[i].healthy)
              => (/\ pc = "hc" /\ fut.hc /\ fut.proc = i
                  /\ fut.st = "done" /\ fut.res \in Terminals
                  /\ procs[i].pending = 0
                  /\ child' = i)]_vars
    /\ [][(pc = "hc" /\ fut.st = "done" /\ fut.res \notin Terminals /\ fut' # fut)
            => (/\ pc' = "ret" /\ ret'.out = "spawn"
                /\ child' = child
                /\ attempts' = attempts
                /\ procs'[fut.proc].st = "dropped"
                /\ ~procs'[fut.proc].healthy)]_vars

C15_Witness ==
    /\ pc = "ret" /\ ret.out = "spawn"
    /\ child = 2 /\ procs[2].healthy
    /\ procs[3].st = "dropped" /\ ~procs[3].healthy /\ procs[3].pending = 1

\* C16: when run has returned the error of a failed replacement spawn, no
\* attempt followed the failed one, and the instance whose failure called for
\* the replacement is not the handle's process.
C16_FailedReplacement ==
    (pc = "ret" /\ ret.out = "spawn")
      => (/\ replaces = attempts /\ ret.errAtt = attempts
          /\ (child = 0 \/ procs[child].failed = "no"))

\* C17: an attempt is classified as timed out only if its worker has let
\* fast_timeout seconds pass without a frame or the long timeout has elapsed,
\* however slowly the progress sink takes the forwarded items.
C17_ProgressRefreshesFastTimeout ==
    [][timeouts' > timeouts => (silent \/ longLeft = 0)]_vars

\* An attempt is under way and stays under way in the step.
SameAttempt ==
    /\ pc \in {"select", "forward"} /\ pc' \in {"select", "forward"}
    /\ attempts' = attempts

\* C18: within an attempt the long timer only runs down: no step, and no
\* Progress frame, resets it; once it has run out the select loop cannot
\* sleep on and its timeout branch is ready, so the attempt ends as timed out
\* unless the task's result is taken; with no frame at all the fast timer
\* runs from the start of the attempt, and once fast_timeout has elapsed
\* the only step of the run is the timeout.
C18_LongTimeoutCeiling ==
    /\ [][SameAttempt => longLeft' <= longLeft]_vars
    /\ [][(SameAttempt /\ fastLeft' > fastLeft)
            => (longLeft' = longLeft /\ fastLeft' = fast_timeout /\ inner # <<>>)]_vars
    /\ []((pc = "select" /\ longLeft = 0)
            => (ENABLED SelectLongTimeout /\ ~ENABLED Tick))
    /\ []((pc \in {"select", "forward"} /\ emitted = 0)
            => (/\ pc = "select"
                /\ fastLeft = Monus(fast_timeout, long_timeout - longLeft)
                /\ (fastLeft = 0 /\ fut.st # "done")
                     => (ENABLED SelectFastTimeout /\ ~ENABLED Tick
                         /\ ~ENABLED SelectFut /\ ~ENABLED SelectProgress)))
    /\ [][(pc = "select" /\ pc' # "select" /\ pc' # "forward" /\ fut.st # "done")
            => (timeouts' = timeouts + 1 /\ (fastLeft = 0 \/ longLeft = 0))]_vars

C18_Witness ==
    /\ pc = "select" /\ longLeft = 0 /\ fastLeft > 0
    /\ fut.st = "read" /\ inner = <<>> /\ emitted = MaxProgress

\* C19: the terminal frame of the first attempt, joined before either timeout
\* has run out, is what run returns in that very step: the same frame, with no
\* failure counted, no replace, no second attempt and the process kept; a
\* frame of the request's variant reaches the caller as the command's result
\* (for a render, its Ok or its compile error).
C19_SuccessPath ==
    /\ [][(JoinedInTime /\ attempts = 1 /\ fut.res \in Terminals)
            => (/\ pc' = "ret" /\ ret'.frame = fut.res
                /\ attempts' = 1 /\ fails' = 0 /\ replaces' = 0
                /\ timeouts' = 0 /\ nproc' = nproc
                /\ child' = fut.proc /\ fut' = NoFut
                /\ Matches(callerReq[lock], fut.res)
                     => ret'.out = (IF fut.res = "RenderErr" THEN "compile" ELSE "ok"))]_vars
    /\ []((pc = "ret" /\ ret.frame # "none" /\ attempts = 1)
            => (fails = 0 /\ replaces = 0 /\ tries_left = RetryBudget))

C19_Witness ==
    /\ pc = "ret" /\ attempts = 1 /\ callerReq[lock] = "Ast"
    /\ ret.frame = "Ast" /\ ret.out = "ok" /\ replaces = 0

\* C20: when the task of a caller request reads a terminal frame, that
\* request is the only one written to the process and still unanswered, so the
\* frame (the pipe is FIFO) answers it and no earlier request.
C20_RequestResponsePairing ==
    [][(~fut.hc /\ fut.st = "read" /\ fut'.st = "done" /\ fut'.res \in Terminals)
        => procs[fut.proc].pending = 1]_vars

\* The execution contexts that own the Child, and with it the pipes, of
\* process i: the handle, the awaited communicate task, a task running on
\* after its future was dropped, the kill task.
Holders(i) ==
    {h \in {"handle", "task", "abandoned", "kill"} :
        \/ h = "handle" /\ child = i
        \/ h = "task" /\ fut.proc = i
        \/ h = "abandoned" /\ i \in abandoned
        \/ h = "kill" /\ killPc # "none" /\ killTarget = i}

\* C21: every process has at most one owner of its pipes; a communicate task
\* exists only while a command holds the lock; and a frame is written to or
\* read from a process only by the awaited communicate task that owns it.
C21_ExclusivePipes ==
    /\ [](\A i \in Procs : Cardinality(Holders(i)) <= 1)
    /\ [](fut.proc # 0 => (lock # 0 /\ fut.owner = lock /\ child # fut.proc))
    /\ [][\A i \in Procs :
            procs'[i].pending # procs[i].pending
              => (fut.proc = i /\ Holders(i) = {"task"} /\ lock # 0)]_vars

C21_Witness ==
    /\ pc = "kill" /\ killPc = "kill" /\ killTarget = 2 /\ child = 3
    /\ 1 \in abandoned /\ Holders(1) = {"abandoned"} /\ Holders(2) = {"kill"}

C28_HandleNeverEmpty == lock = 0 => child # 0

\* C29: the step by which run returns a transport or timeout error is the
\* return of a successful replace; the handle then holds the process spawned
\* last, by a replace of this run, which has passed its health check, is
\* live and has had no request but that of its health check, answered.
C29_FreshProcessAfterError ==
    /\ []((pc = "ret" /\ ret.out \in {"io", "timeout"})
            => (/\ replaces >= 1
                /\ child = nproc
                /\ procs[child].healthy /\ procs[child].st = "live"
                /\ procs[child].pending = 0 /\ procs[child].failed = "no"))
    /\ [][(pc # "ret" /\ pc' = "ret" /\ ret'.out \in {"io", "timeout"})
            => (pc = "kill" /\ killPc = "done" /\ child' = child /\ procs' = procs)]_vars
    /\ [][(nproc' # nproc)
            => (/\ nproc' = nproc + 1 /\ replaces' = replaces + 1 /\ pc' = "hc"
                /\ procs[nproc'].st = "unborn" /\ fut'.proc = nproc' /\ fut'.hc)]_vars
    /\ [](pc \in {"hc", "kill"} => (procs[nproc].pending <= 1 /\ procs[nproc].failed = "no"))

C29_Witness ==
    /\ pc = "ret" /\ ret.out = "io" /\ child = 3 /\ nproc = 3
    /\ procs[3].healthy /\ procs[2].st = "reaped" /\ procs[1].st = "reaped"

\* No process is spawned, killed or waited on in the step: the only change of
\* a process's state is the end of a task left behind by an earlier timeout.
NoSpawnNoKill ==
    /\ nproc' = nproc
    /\ killPc' = "none"
    /\ \A i \in Procs :
         \/ procs'[i].st = procs[i].st
         \/ i \in abandoned /\ i # fut.proc /\ i # child /\ procs'[i].st = "dropped"

\* C30: a run that returns the terminal frame of its first attempt spawns
\* and kills nothing: from the start of the run to the release of the lock no
\* step spawns, kills or reaps, the attempt runs on the process the handle
\* held when the run began, that process is put back into the handle, and it
\* is still there, live, when the lock is released for the next run.
C30_SuccessLeavesSupervisor ==
    /\ [][(lock = 0 /\ lock' # 0)
            => (fut'.proc = child /\ child # 0 /\ NoSpawnNoKill)]_vars
    /\ [][(pc \in {"select", "forward"} /\ attempts = 1
             /\ (pc' \in {"select", "forward"}
                  \/ (pc' = "ret" /\ ret'.frame \in Terminals)))
            => (/\ NoSpawnNoKill /\ replaces' = 0
                /\ IF pc' = "ret" THEN child' = fut.proc /\ fut' = NoFut
                    ELSE fut'.proc = fut.proc /\ child' = 0)]_vars
    /\ [][(pc = "ret" /\ ret.frame \in Terminals /\ attempts = 1)
            => (child' = child /\ NoSpawnNoKill)]_vars
    /\ []((pc = "ret" /\ ret.frame \in Terminals /\ attempts = 1)
            => (child # 0 /\ procs[child].st = "live" /\ procs[child].healthy
                /\ replaces = 0 /\ killPc = "none"))

C30_Witness ==
    /\ lock = 2 /\ callerPc[1] = "done" /\ pc = "ret" /\ attempts = 1
    /\ ret.frame = "RenderErr" /\ child = 1 /\ nproc = 1

(* ------------------------- the worker program -------------------------- *)
\* The frames written for the request read last: all but the last one.
Earlier(out) == IF out = <<>> THEN <<>> ELSE SubSeq(out, 1, Len(out) - 1)

\* C23: the frames the worker writes for a request it has read are zero or
\* more Progress frames followed by one terminal frame of the variant of the
\* request: while the request is processed only Progress frames have been
\* written, when the loop is back at its head exactly one terminal frame
\* closes them, and a frame is written only while a request is processed.
C23_WorkerFraming ==
    /\ [](wReq = NoReq => wOut = <<>>)
    /\ [](\A i \in 1..Len(Earlier(wOut)) : wOut[i] = "Progress")
    /\ []((wpc = "work" /\ wOut # <<>>) => wOut[Len(wOut)] = "Progress")
    /\ []((wpc = "read" /\ wReq # NoReq)
            => (/\ wOut # <<>>
                /\ wOut[Len(wOut)] \in Terminals
                /\ Matches(wReq.kind, wOut[Len(wOut)])))
    /\ [][(wOut' # wOut /\ wOut' # <<>>)
            => (wpc = "work" /\ wOut' = Append(wOut, wOut'[Len(wOut')]))]_vars
    /\ [][(wpc = "read" /\ wpc' = "work")
            => (wOut' = <<>> /\ wReq' = Head(wSent))]_vars

C23_Witness ==
    wpc = "read" /\ wReq.kind = "Render" /\ wOut = <<"Progress", "RenderErr">>

\* C24: a panic raised while a request is processed, Render or Ast, becomes
\* the terminal frame of that request and the worker goes on to read the
\* next one: the processing of a request never ends the process.
C24_PanicsTrapped ==
    [][(wpc = "work" /\ wpc' # "work")
         => (wpc' = "read" /\ wOut' # wOut)]_vars

\* C25: decoding the encoding of a Request gives the Request back, for each
\* variant and each code string, the empty one included; and the value the
\* worker decodes from its stdin is the one the parent encoded into it.
C25_RoundTrip ==
    /\ \A req \in Requests :
         Decode(Encode(req)) = [status |-> "ok", value |-> req, rest |-> <<>>]
    /\ wpc = "work" => wReq = wOrig

C25_Witness ==
    /\ wpc = "work" /\ wReq.kind = "Ast" /\ wReq.code = <<>>
    /\ Len(wSent) = 1 /\ Head(wSent).kind = "Render" /\ Head(wSent).code # <<>>

\* C26: a stdin that ends in the middle of a Request leads the read loop to
\* an outcome other than the orderly return it takes when stdin ends between
\* two Requests.
C26_TruncationDistinguished == ~(wTrunc /\ wpc = "exited")

(* ------------------------------- render -------------------------------- *)
RECURSIVE TotalLen(_)
TotalLen(images) ==
    IF images = <<>> THEN 0 ELSE Head(images).len + TotalLen(Tail(images))

\* C27: the Rendered payload of a compiled document holds at most PAGE_LIMIT
\* images, the k-th image is the rendering of the k-th page, the lengths of
\* the images add up to at most BYTES_LIMIT, and the number of images plus
\* more_pages is the number of pages of the document.
C27_RenderCaps ==
    (rpc = "done" /\ rOut.out = "ok") =>
        /\ Len(rOut.images) <= PAGE_LIMIT
        /\ Len(rOut.images) <= Len(rDoc)
        /\ \A k \in 1..Len(rOut.images) :
             /\ rOut.images[k].page = k
             /\ rOut.images[k].len = rDoc[k].len
        /\ TotalLen(rOut.images) <= BYTES_LIMIT
        /\ Len(rOut.images) + rOut.more_pages = Len(rDoc)

C27_Witness ==
    /\ rpc = "done" /\ rOut.out = "ok"
    /\ Len(rDoc) = 3 /\ Len(rOut.images) = 2 /\ rOut.more_pages = 1
    /\ TotalLen(rOut.images) = BYTES_LIMIT

(* ------------------------- progress is advisory ------------------------ *)
\* The run in progress was given no progress channel (ast, version).
NoSink == lock # 0 /\ callerReq[lock] # "Render"
\* The select loop takes a Progress item from its own channel.
TakesProgress ==
    /\ pc = "select" /\ pc' \in {"select", "forward"}
    /\ inner # <<>> /\ inner' = Tail(inner)

\* C31: progress is advisory.  A run without a caller channel never waits on
\* a sink, and an item it takes from its own channel resets the fast timeout
\* and changes nothing else of the run; such a run is classified as timed
\* out only after fast_timeout seconds without a frame or when the long
\* timeout has elapsed.  The health check, which has no channel at all,
\* never holds an item.  A task whose receiver is gone (its future was
\* dropped) ends without touching the run in progress.  And the frame a run
\* returns is the terminal frame its task read, whatever was emitted before.
C31_ProgressAdvisory ==
    /\ [](NoSink => (pc # "forward" /\ held = 0 /\ outer = <<>> /\ consumed = <<>>))
    /\ [](fut.hc => (fut.st # "send" /\ fut.item = 0 /\ inner = <<>>))
    /\ [][(TakesProgress /\ NoSink)
            => (/\ fastLeft' = fast_timeout /\ longLeft' = longLeft
                /\ pc' = "select" /\ fut' = fut
                /\ UNCHANGED <<runVars, procVars, sinkVars, histVars>>)]_vars
    /\ [][(NoSink /\ timeouts' > timeouts) => (silent \/ longLeft = 0)]_vars
    /\ [][(\E i \in abandoned : i \notin abandoned')
            => (fut' = fut /\ inner' = inner /\ child' = child
                /\ UNCHANGED <<runVars, sinkVars, timerVars, histVars>>)]_vars
    /\ [][(pc = "select" /\ pc' = "ret" /\ ret'.frame # "none")
            => (ret'.frame = fut.res /\ fails' = fails /\ timeouts' = timeouts)]_vars

C31_Witness ==
    /\ pc = "select" /\ callerReq[lock] = "Ast" /\ emitted = 2 /\ inner = <<>>
    /\ fastLeft = fast_timeout /\ longLeft = long_timeout - Quantum

(* --------------------- the render command's receive loop --------------- *)
\* C32: once render has returned, with a result, an error or a timeout, no
\* sender of the command's progress channel is left and run waits in no
\* send; the channel holds at most its capacity and only drains; the receive
\* loop can take an item while there is one and the command can go on once
\* there is none; and the command's next step away from there releases the
\* lock, the channel drained.
C32_ConsumerLoopEnds ==
    /\ [](pc = "ret" => (OuterSenders = {} /\ held = 0 /\ Len(outer) <= OuterCap))
    /\ [](pc = "ret" => IF outer = <<>> THEN ENABLED Release ELSE ENABLED Consume)
    /\ [][(pc = "ret" /\ pc' = "ret")
            => \/ UNCHANGED sinkVars
               \/ outer' = Tail(outer) /\ consumed' = Append(consumed, Head(outer))]_vars
    /\ [][(pc = "ret" /\ pc' # "ret")
            => (outer = <<>> /\ lock' = 0 /\ callerPc'[lock] = "done")]_vars

C32_Witness ==
    /\ pc = "ret" /\ ret.out = "timeout" /\ callerReq[lock] = "Render"
    /\ outer # <<>> /\ abandoned # {}

(* ------------------------------ code blocks ---------------------------- *)
\* p occurs in s.
Contains(s, p) == \E i \in 1..(Len(s) - Len(p) + 1) : SubSeq(s, i, i + Len(p) - 1) = p

\* s without the characters at the given positions.
RECURSIVE Without(_, _)
Without(s, positions) ==
    IF s = <<>> THEN <<>>
    ELSE LET init == Without(SubSeq(s, 1, Len(s) - 1), positions)
         IN  IF Len(s) \in positions THEN init ELSE Append(init, s[Len(s)])

\* C33: what sanitize_code_block writes never holds three backticks in a
\* row, and without the joiners the function put in it is the input.
C33_SanitizeNoFence ==
    tOut.fn = "sanitize"
      => (/\ ~Contains(tOut.val.text, Fence)
          /\ Without(tOut.val.text, tOut.val.inserted) = tIn)

\* C34: after the two replace passes of pop_from no backtick, joiner,
\* backtick is left in the source.
C34_UnescapeComplete ==
    tOut.fn = "unescape" => ~Contains(tOut.val, Pattern)

C34_Witness ==
    /\ tOut.fn = "unescape"
    /\ tIn = <<Backtick, ZERO_WIDTH_JOINER, Backtick, ZERO_WIDTH_JOINER,
               Backtick, ZERO_WIDTH_JOINER, Backtick>>
    /\ tOut.val = <<Backtick, Backtick, Backtick, Backtick>>

(* ------------------------- spans of diagnostics ------------------------ *)
\* The byte offset at which character k + 1 of the source begins (the end of
\* the source for k = Len(source)): the character boundaries.
Boundary(source, k) == ByteLen(SubSeq(source, 1, k))
\* The number of characters before the largest character boundary that is
\* at most min(i, length of the source).
CharsBelow(source, i) ==
    CHOOSE k \in 0..Len(source) :
        /\ Boundary(source, k) <= i
        /\ \A j \in 0..Len(source) : Boundary(source, j) <= i => j <= k

\* C35: byte_index_to_char_index returns the largest character boundary at
\* or below the index (the end of the source for an index past it) and the
\* number of characters before that boundary.
C35_CharIndex ==
    tOut.fn = "index" =>
        LET i == tOut.val.arg[1]
            k == CharsBelow(tIn, i)
        IN  /\ tOut.val.ret.char_index = k
            /\ tOut.val.ret.first_byte = Boundary(tIn, k)
            /\ tOut.val.ret.first_byte <= i
            /\ tOut.val.ret.first_byte <= ByteLen(tIn)

C35_Witness ==
    /\ tOut.fn = "index" /\ tIn = <<12354, 97>> /\ tOut.val.arg = <<2>>
    /\ tOut.val.ret = [first_byte |-> 0, char_index |-> 0]

\* C36: byte_span_to_char_span returns None exactly when start > end;
\* otherwise Some(s..e) with s <= e, s the number of characters before the
\* boundary at or below start and e the number of characters before the
\* boundary at or below that boundary advanced by end - start bytes.
C36_CharSpan ==
    tOut.fn = "span" =>
        LET start == tOut.val.arg[1]
            end == tOut.val.arg[2]
            s == CharsBelow(tIn, start)
        IN  /\ tOut.val.ret.some <=> ~(start > end)
            /\ tOut.val.ret.some =>
                  /\ tOut.val.ret.start = s
                  /\ tOut.val.ret.end = CharsBelow(tIn, Boundary(tIn, s) + (end - start))
                  /\ tOut.val.ret.start <= tOut.val.ret.end

C36_Witness ==
    /\ tOut.fn = "span" /\ tIn = <<12354, 12354>> /\ tOut.val.arg = <<2, 3>>
    /\ tOut.val.ret = [some |-> TRUE, start |-> 0, end |-> 0]

====
